---- MODULE Spec2Model ----
(***************************************************************************)
(* Model of tools/sync/projadm.py: the add / delete / refresh wrapper     *)
(* around the webapp's configuration API, the ConfigMerge tool, the local *)
(* configuration file and the invocation lock.                            *)
(*                                                                         *)
(* Strings whose characters matter (project names, source roots, paths)   *)
(* are sequences of one-character strings; configuration texts are        *)
(* sequences of bytes (small integers).                                   *)
(***************************************************************************)
EXTENDS Integers, Sequences, FiniteSets, TLC

\* Size of the write buffer of a temporary file object (scaled down).
BufSize == 2

Procs == {"p1", "p2"}

Last(s) == s[Len(s)]
Front(s) == SubSeq(s, 1, Len(s) - 1)

-----------------------------------------------------------------------------
(* Command lines.                                                          *)

Whitespace == {" "}

ProjA == <<"a">>
ProjB == <<"b">>
ProjEmpty == <<>>
ProjDot == <<".">>
ProjDotDot == <<".", ".">>
ProjAbs == <<"/", "t">>

\* The project lists given to --add / --delete.
AddLists == {<<ProjA>>, <<ProjA, ProjB>>}
DeleteLists ==
    {<<ProjA>>, <<ProjA, ProjB>>, <<ProjEmpty>>, <<ProjB, ProjEmpty>>,
     <<ProjDot>>, <<ProjDotDot>>, <<ProjAbs>>}

ArgvOf(op, projects, doit, ro, upload) ==
    [op |-> op, projects |-> projects, doit |-> doit, roconfig |-> ro,
     upload |-> upload, base |-> "/var/opengrok", uri |-> "http://localhost:8080/source",
     configmerge |-> "ConfigMerge"]

ValidArgv ==
    LET ops == {<<"add", l>> : l \in AddLists}
               \cup {<<"delete", l>> : l \in DeleteLists}
               \cup {<<"refresh", <<>>>>, <<"none", <<>>>>}
    IN {ArgvOf(o[1], o[2], d, r, u) :
          o \in ops, d \in BOOLEAN, r \in {"", "/ro.xml"}, u \in BOOLEAN}

\* Command lines that fail the checks made before the lock is taken.
InvalidArgv ==
    LET a == ArgvOf("refresh", <<>>, TRUE, "", FALSE)
    IN {[a EXCEPT !.base = "/nodir"], [a EXCEPT !.roconfig = "/nofile"],
        [a EXCEPT !.uri = ""], [a EXCEPT !.configmerge = ""]}

\* The second invocation is drawn from a few command lines only.
ContenderArgv ==
    {ArgvOf("refresh", <<>>, TRUE, "", TRUE),
     ArgvOf("delete", <<ProjA>>, TRUE, "", FALSE),
     ArgvOf("add", <<ProjB>>, FALSE, "/ro.xml", FALSE)}

\* path.isdir(args.base), path.isfile(args.roconfig), get_command()
IsDir(b) == b = "/var/opengrok"
IsFile(f) == f = "/ro.xml"
get_command(c) == c

-----------------------------------------------------------------------------
(* Values the collaborators can return.                                    *)

ShortText == <<1>>
LongText == [i \in 1..(BufSize + 1) |-> i]
OldText == <<9>>

\* get_configuration(): a falsy result (here the empty text) is a failure.
FetchResults == {<<>>, ShortText, LongText}

\* Output of the ConfigMerge run.
MergeOutputs == {<<>>, <<7>>, [i \in 1..(BufSize + 1) |-> 7]}

SrcRoot == <<"/", "s">>

\* get_config_value('sourceRoot'): a list of values, possibly empty.
LookupResults ==
    {<<>>, << <<>> >>, << <<" ">> >>, <<SrcRoot>>, <<SrcRoot \o <<" ">>, <<"/", "t">> >>}

-----------------------------------------------------------------------------
(* Events: every call that leaves the process.                             *)

\* ok: the result the call returned (TRUE where there is none)
Ev(op, proj, src, dst, data, ok) ==
    [op |-> op, proj |-> proj, src |-> src, dst |-> dst, data |-> data, ok |-> ok]

-----------------------------------------------------------------------------
(* Pure helpers.                                                           *)

\* str.rstrip()
RECURSIVE RStrip(_)
RStrip(s) ==
    IF s = <<>> THEN s
    ELSE IF Last(s) \in Whitespace THEN RStrip(Front(s)) ELSE s

\* os.path.join(a, b)
PathJoin(a, b) ==
    IF b # <<>> /\ b[1] = "/" THEN b
    ELSE IF a = <<>> \/ Last(a) = "/" THEN a \o b
    ELSE a \o <<"/">> \o b

\* d is path or lies below it
IsUnder(d, path) ==
    \/ d = path
    \/ /\ Len(d) > Len(path)
       /\ SubSeq(d, 1, Len(path)) = path
       /\ (d[Len(path) + 1] = "/" \/ (path # <<>> /\ Last(path) = "/"))

\* The components of a path, split at "/".
RECURSIVE Split(_)
Split(s) ==
    IF s = <<>> THEN << <<>> >>
    ELSE LET r == Split(Front(s))
         IN IF Last(s) = "/" THEN Append(r, <<>>)
            ELSE [r EXCEPT ![Len(r)] = Append(@, Last(s))]

DotNames == {<<".">>, <<".", ".">>}

\* The components left once "", "." and ".." are followed (absolute paths).
RECURSIVE NormParts(_)
NormParts(cs) ==
    IF cs = <<>> THEN <<>>
    ELSE LET st == NormParts(Front(cs))
             c == Last(cs)
         IN IF c = <<>> \/ c = <<".">> THEN st
            ELSE IF c = <<".", ".">> THEN (IF st = <<>> THEN st ELSE Front(st))
            ELSE Append(st, c)

RECURSIVE JoinParts(_)
JoinParts(ps) ==
    IF ps = <<>> THEN <<>> ELSE JoinParts(Front(ps)) \o <<"/">> \o Last(ps)

\* The directory the file system finds at a path.
Resolve(path) ==
    LET ps == NormParts(Split(path))
    IN IF ps = <<>> THEN <<"/">> ELSE JoinParts(ps)

\* rmdir() of a path whose last component is "." or ".." fails.
TopStays(path) == Last(Split(path)) \in DotNames

\* shutil.rmtree(path) on the set of existing directories: everything below
\* the directory goes, and the directory itself when rmdir(path) succeeds.
RmTree(ds, path) ==
    {d \in ds : ~IsUnder(d, Resolve(path)) \/ (TopStays(path) /\ d = Resolve(path))}

\* Temporary file objects: what is on disk at the file's path, and what is
\* still in the writer's buffer.
NoTemp == [exists |-> FALSE, disk |-> <<>>, buf |-> <<>>]
NewTemp == [exists |-> TRUE, disk |-> <<>>, buf |-> <<>>]

\* write() on the buffered file object, no flush
BufferedWrite(f, data) ==
    IF Len(f.buf) + Len(data) <= BufSize
    THEN [f EXCEPT !.buf = @ \o data]
    ELSE IF Len(data) > BufSize
         THEN [f EXCEPT !.disk = @ \o f.buf \o data, !.buf = <<>>]
         ELSE [f EXCEPT !.disk = @ \o f.buf, !.buf = data]

NoCopy == [src |-> "", pos |-> 0, old |-> <<>>]

-----------------------------------------------------------------------------
VARIABLES
    argv,       \* command line of each invocation
    pc,         \* position of each invocation
    status,     \* exit status (-1 while running)
    err,        \* how the invocation ended: "", "SystemExit", "Exception", ...
    lock,       \* holder of the lock file, or "free"
    idx,        \* index of the project being processed
    current_config, \* text returned by get_configuration
    merged_config,  \* output of the merge tool
    fcur,       \* temporary file for the current config
    fmerged,    \* temporary file for the merged config
    copy,       \* progress of shutil.copyfile in install_config
    cfg,        \* <base>/etc/configuration.xml
    dirs,       \* directories that exist under the source roots
    log         \* external calls made by each invocation, in order

vars == <<argv, pc, status, err, lock, idx, current_config, merged_config,
          fcur, fmerged, copy, cfg, dirs, log>>

NoFile == [exists |-> FALSE, data |-> <<>>]

InitDirs ==
    {<<"/">>, <<"/", "t">>, SrcRoot, SrcRoot \o <<"/", "a">>, SrcRoot \o <<"/", "b">>}

Init ==
    /\ argv \in {f \in [Procs -> ValidArgv \cup InvalidArgv \cup ContenderArgv] :
                    f["p2"] \in ContenderArgv}
    /\ pc = [p \in Procs |-> "start"]
    /\ status = [p \in Procs |-> -1]
    /\ err = [p \in Procs |-> ""]
    /\ lock = "free"
    /\ idx = [p \in Procs |-> 1]
    /\ current_config = [p \in Procs |-> <<>>]
    /\ merged_config = [p \in Procs |-> <<>>]
    /\ fcur = [p \in Procs |-> NoTemp]
    /\ fmerged = [p \in Procs |-> NoTemp]
    /\ copy = [p \in Procs |-> NoCopy]
    /\ cfg \in {NoFile, [exists |-> TRUE, data |-> OldText]}
    /\ dirs = InitDirs
    /\ log = [p \in Procs |-> <<>>]

-----------------------------------------------------------------------------
(* Leaving the program.                                                    *)

\* (variant: the lock is not released on the way out)
Released_Keep(p) == lock

\* The lock is released when the "with lock.acquire()" block is left.
Released(p) == IF lock = p THEN "free" ELSE lock

\* (variant: the temporary file is left behind)
Closed_Leak(f) == f

\* Leaving "with tempfile.NamedTemporaryFile() as f": f is closed and deleted.
Closed(f) == NoTemp

\* sys.exit(code) or an uncaught exception: the "with" blocks are unwound
\* (temporary files closed and deleted, lock released).
Terminate(p, code, how) ==
    /\ pc' = [pc EXCEPT ![p] = "exited"]
    /\ status' = [status EXCEPT ![p] = code]
    /\ err' = [err EXCEPT ![p] = how]
    /\ lock' = Released(p)
    /\ fcur' = [fcur EXCEPT ![p] = Closed(@)]
    /\ fmerged' = [fmerged EXCEPT ![p] = Closed(@)]
    /\ copy' = [copy EXCEPT ![p] = NoCopy]

Goto(p, label) ==
    /\ pc' = [pc EXCEPT ![p] = label]
    /\ UNCHANGED <<status, err>>

Emit(p, evs) == log' = [log EXCEPT ![p] = @ \o evs]

-----------------------------------------------------------------------------
(* __main__ before the lock.                                               *)

ArgsValid(a) ==
    /\ (a.base # "" => IsDir(a.base))
    /\ (a.roconfig # "" => IsFile(a.roconfig))
    /\ a.uri # ""
    /\ get_command(a.configmerge) # ""

Start(p) ==
    /\ pc[p] = "start"
    /\ IF ArgsValid(argv[p])
       THEN /\ Goto(p, "lock")
            /\ UNCHANGED <<lock, fcur, fmerged, copy>>
       ELSE Terminate(p, 1, "SystemExit")
    /\ UNCHANGED <<argv, idx, current_config, merged_config, cfg, dirs, log>>

\* (variant: the acquisition never finds the lock taken)
LockFree_Always == TRUE

\* filelock: lock.acquire(timeout=0)
LockFree == lock = "free"

Acquire(p) ==
    /\ pc[p] = "lock"
    /\ IF LockFree
       THEN /\ lock' = p
            /\ Goto(p, "dispatch")
            /\ UNCHANGED <<fcur, fmerged, copy>>
       ELSE Terminate(p, 1, "Timeout")
    /\ UNCHANGED <<argv, idx, current_config, merged_config, cfg, dirs, log>>

\* (variant: no sys.exit(1) after parser.print_help())
Dispatch_NoExit(p) ==
    /\ pc[p] = "dispatch"
    /\ Goto(p, IF argv[p].op \in {"add", "delete", "refresh"} THEN argv[p].op
                ELSE "upload")
    /\ UNCHANGED <<lock, fcur, fmerged, copy>>
    /\ UNCHANGED <<argv, idx, current_config, merged_config, cfg, dirs, log>>

Dispatch(p) ==
    /\ pc[p] = "dispatch"
    /\ IF argv[p].op = "add" THEN
            Goto(p, "add") /\ UNCHANGED <<lock, fcur, fmerged, copy>>
       ELSE IF argv[p].op = "delete" THEN
            Goto(p, "delete") /\ UNCHANGED <<lock, fcur, fmerged, copy>>
       ELSE IF argv[p].op = "refresh" THEN
            Goto(p, "refresh") /\ UNCHANGED <<lock, fcur, fmerged, copy>>
       ELSE Terminate(p, 1, "SystemExit")
    /\ UNCHANGED <<argv, idx, current_config, merged_config, cfg, dirs, log>>

-----------------------------------------------------------------------------
(* project_add                                                             *)

\* add_project() is called only when doit; its result is not looked at.
AddCalls(doit, proj, ok) ==
    IF doit THEN <<Ev("add_project", proj, "", "", <<>>, ok)>> ELSE <<>>

\* (variant: config_refresh inside the loop, after the first project)
AfterProject_Early(p, label) == "refresh"

\* After the last project of the list comes config_refresh.
AfterProject(p, label) ==
    IF idx[p] < Len(argv[p].projects) THEN label ELSE "refresh"

ProjectAdd(p) ==
    /\ pc[p] = "add"
    /\ \E ok \in BOOLEAN :
          Emit(p, AddCalls(argv[p].doit, argv[p].projects[idx[p]], ok))
    /\ idx' = [idx EXCEPT ![p] = @ + 1]
    /\ Goto(p, AfterProject(p, "add"))
    /\ UNCHANGED <<argv, lock, current_config, merged_config, fcur, fmerged,
                   copy, cfg, dirs>>

-----------------------------------------------------------------------------
(* project_delete                                                          *)

\* (variant: the check of the project name is missing)
MissingProject_Never(proj) == FALSE

\* "if not project or len(project) == 0"
MissingProject(proj) == proj = <<>>

\* (variant: the second check is made before rstrip)
LookupFails_NoStrip(r) == r = <<>> \/ r[1] = <<>>

\* "if not src_root" and "if not src_root or len(src_root) == 0" after rstrip
LookupFails(r) == r = <<>> \/ RStrip(r[1]) = <<>>

\* (variant: the trailing whitespace is not stripped)
SourceDir_NoStrip(r, proj) == PathJoin(r[1], proj)

SourceDir(r, proj) == PathJoin(RStrip(r[1]), proj)

\* The calls project_delete makes, in order, for one project.
DeleteCalls(doit, proj, dok, r) ==
    (IF doit THEN <<Ev("delete_project", proj, "", "", <<>>, dok)>> ELSE <<>>)
    \o <<Ev("get_config_value", proj, "", "",
            IF r = <<>> THEN <<>> ELSE r[1], r # <<>>)>>
    \o (IF ~LookupFails(r) /\ doit
        THEN <<Ev("rmtree", proj, "", "", SourceDir(r, proj), TRUE)>>
        ELSE <<>>)

ProjectDelete(p) ==
    /\ pc[p] = "delete"
    /\ LET proj == argv[p].projects[idx[p]]
           doit == argv[p].doit
       IN IF MissingProject(proj)
          THEN /\ Terminate(p, 1, "Exception")
               /\ UNCHANGED <<idx, dirs, log>>
          ELSE \E dok \in BOOLEAN, r \in LookupResults :
                 /\ Emit(p, DeleteCalls(doit, proj, dok, r))
                 /\ IF LookupFails(r)
                    THEN /\ Terminate(p, 1, "Exception")
                         /\ UNCHANGED <<idx, dirs>>
                    ELSE IF doit /\ Resolve(SourceDir(r, proj)) \notin dirs
                    THEN /\ Terminate(p, 1, "FileNotFoundError")
                         /\ UNCHANGED <<idx, dirs>>
                    ELSE IF doit /\ TopStays(SourceDir(r, proj))
                    THEN /\ dirs' = RmTree(dirs, SourceDir(r, proj))
                         /\ Terminate(p, 1, "OSError")
                         /\ UNCHANGED idx
                    ELSE /\ dirs' = IF doit THEN RmTree(dirs, SourceDir(r, proj))
                                    ELSE dirs
                         /\ idx' = [idx EXCEPT ![p] = @ + 1]
                         /\ Goto(p, AfterProject(p, "delete"))
                         /\ UNCHANGED <<lock, fcur, fmerged, copy>>
    /\ UNCHANGED <<argv, current_config, merged_config, cfg>>

-----------------------------------------------------------------------------
(* config_refresh, exec_command, install_config                            *)

\* The content a reader of the temporary file's path gets.
Readable(f) == f.disk

TempOf(p, name) == IF name = "fcur" THEN fcur[p] ELSE fmerged[p]

\* (variant: config_refresh does not look for the file)
ConfigFileMissing_Never == FALSE

\* "if not path.isfile(main_config)" with main_config = get_config_file(basedir)
ConfigFileMissing == ~cfg.exists

\* get_config_file(), path.isfile(main_config), get_configuration()
RefreshFetch(p) ==
    /\ pc[p] = "refresh"
    /\ IF ConfigFileMissing
       THEN /\ Terminate(p, 1, "SystemExit")
            /\ UNCHANGED <<current_config, log>>
       ELSE IF argv[p].doit
       THEN \E t \in FetchResults :
              /\ Emit(p, <<Ev("get_configuration", <<>>, "", "", t, t # <<>>)>>)
              /\ IF t = <<>>
                 THEN /\ Terminate(p, 1, "SystemExit")
                      /\ UNCHANGED current_config
                 ELSE /\ current_config' = [current_config EXCEPT ![p] = t]
                      /\ Goto(p, "fcur")
                      /\ UNCHANGED <<lock, fcur, fmerged, copy>>
       ELSE /\ Goto(p, "fcur")
            /\ UNCHANGED <<current_config, lock, fcur, fmerged, copy, log>>
    /\ UNCHANGED <<argv, idx, merged_config, cfg, dirs>>

\* What a temporary file holds after "if doit: f.write(text)".
Staged(doit, text) == IF doit THEN BufferedWrite(NewTemp, text) ELSE NewTemp

StageCalls(doit, name, text) ==
    <<Ev("mktemp", <<>>, "", name, <<>>, TRUE)>>
    \o (IF doit THEN <<Ev("write", <<>>, "", name, text, TRUE)>> ELSE <<>>)

\* "with tempfile.NamedTemporaryFile() as fcur", the write, and the branch
\* on roconfig up to the call of install_config / exec_command.
RefreshCurrent(p) ==
    /\ pc[p] = "fcur"
    /\ fcur' = [fcur EXCEPT ![p] = Staged(argv[p].doit, current_config[p])]
    /\ Emit(p, StageCalls(argv[p].doit, "fcur", current_config[p]))
    /\ IF argv[p].roconfig # ""
       THEN Goto(p, "merge") /\ UNCHANGED copy
       ELSE IF argv[p].doit
       THEN /\ Goto(p, "install")
            /\ copy' = [copy EXCEPT ![p] = [src |-> "fcur", pos |-> 0, old |-> cfg.data]]
       ELSE Goto(p, "close") /\ UNCHANGED copy
    /\ UNCHANGED <<argv, lock, idx, current_config, merged_config, fmerged, cfg, dirs>>

\* (variant: the state and return code of the command are not looked at)
CommandFailed_Never(ok) == FALSE

\* "cmd.getstate() is not Command.FINISHED or cmd.getretcode() != 0";
\* ok: the command finished with return code 0
CommandFailed(ok) == ~ok

\* exec_command(doit, logger, [configmerge, roconfig, fcur.name], ...)
RefreshMerge(p) ==
    /\ pc[p] = "merge"
    /\ IF ~argv[p].doit
       THEN /\ Goto(p, "fmerged")
            /\ UNCHANGED <<merged_config, lock, fcur, fmerged, copy, log>>
       ELSE \E ok \in BOOLEAN, out \in MergeOutputs :
              /\ Emit(p, <<Ev("exec", <<>>, argv[p].roconfig, "fcur",
                              Readable(fcur[p]), ok)>>)
              /\ IF CommandFailed(ok)
                 THEN /\ Terminate(p, 1, "SystemExit")
                      /\ UNCHANGED merged_config
                 ELSE /\ merged_config' = [merged_config EXCEPT ![p] = out]
                      /\ Goto(p, "fmerged")
                      /\ UNCHANGED <<lock, fcur, fmerged, copy>>
    /\ UNCHANGED <<argv, idx, current_config, cfg, dirs>>

\* "with tempfile.NamedTemporaryFile() as fmerged" and the write
RefreshMerged(p) ==
    /\ pc[p] = "fmerged"
    /\ fmerged' = [fmerged EXCEPT ![p] = Staged(argv[p].doit, merged_config[p])]
    /\ Emit(p, StageCalls(argv[p].doit, "fmerged", merged_config[p]))
    /\ IF argv[p].doit
       THEN /\ Goto(p, "install")
            /\ copy' = [copy EXCEPT ![p] = [src |-> "fmerged", pos |-> 0, old |-> cfg.data]]
       ELSE Goto(p, "close") /\ UNCHANGED copy
    /\ UNCHANGED <<argv, lock, idx, current_config, merged_config, fcur, cfg, dirs>>

\* (variant: dst opened for appending)
Truncated_Keep(old) == old

\* shutil.copyfile opens dst for writing: the old content is gone.
Truncated(old) == <<>>

\* install_config with doit: shutil.copyfile(src, dst) opens both files
InstallOpen(p) ==
    /\ pc[p] = "install"
    /\ Emit(p, <<Ev("copyfile", <<>>, copy[p].src, "main_config", <<>>, TRUE)>>)
    /\ \/ /\ cfg' = [exists |-> TRUE, data |-> Truncated(cfg.data)]
          /\ Goto(p, "copy")
          /\ UNCHANGED <<lock, fcur, fmerged, copy>>
       \/ /\ Terminate(p, 1, "SystemExit")
          /\ UNCHANGED cfg
    /\ UNCHANGED <<argv, idx, current_config, merged_config, dirs>>

\* one block of the copy, or an I/O error part-way
CopyChunk(p) ==
    /\ pc[p] = "copy"
    /\ copy[p].pos < Len(Readable(TempOf(p, copy[p].src)))
    /\ \/ /\ cfg' = [cfg EXCEPT !.data =
                        Append(@, Readable(TempOf(p, copy[p].src))[copy[p].pos + 1])]
          /\ copy' = [copy EXCEPT ![p].pos = @ + 1]
          /\ Goto(p, "copy")
          /\ UNCHANGED <<lock, fcur, fmerged>>
       \/ /\ Terminate(p, 1, "SystemExit")
          /\ UNCHANGED cfg
    /\ UNCHANGED <<argv, idx, current_config, merged_config, dirs, log>>

\* copyfile reached the end of src: install_config returns
CopyDone(p) ==
    /\ pc[p] = "copy"
    /\ copy[p].pos = Len(Readable(TempOf(p, copy[p].src)))
    /\ Goto(p, "close")
    /\ UNCHANGED <<argv, lock, idx, current_config, merged_config, fcur, fmerged,
                   copy, cfg, dirs, log>>

\* the "with" blocks of config_refresh are left: both files closed, deleted
RefreshClose(p) ==
    /\ pc[p] = "close"
    /\ fcur' = [fcur EXCEPT ![p] = Closed(@)]
    /\ fmerged' = [fmerged EXCEPT ![p] = Closed(@)]
    /\ copy' = [copy EXCEPT ![p] = NoCopy]
    /\ Goto(p, "upload")
    /\ UNCHANGED <<argv, lock, idx, current_config, merged_config, cfg, dirs, log>>

-----------------------------------------------------------------------------
(* __main__: upload and the end of the locked block                        *)

\* (variant: the upload does not depend on --upload)
UploadCalls_Always(a, content) ==
    IF a.doit
    THEN <<Ev("set_configuration", <<>>, "main_config", "", content, TRUE)>>
    ELSE <<>>

\* (variant: the upload is not gated on doit)
UploadCalls_NoGate(a, content) ==
    IF a.upload
    THEN <<Ev("set_configuration", <<>>, "main_config", "", content, TRUE)>>
    ELSE <<>>

UploadCalls(a, content) ==
    IF a.upload /\ a.doit
    THEN <<Ev("set_configuration", <<>>, "main_config", "", content, TRUE)>>
    ELSE <<>>

Finish(p) ==
    /\ pc[p] = "upload"
    /\ IF argv[p].upload /\ ~cfg.exists
       THEN Terminate(p, 1, "SystemExit") /\ UNCHANGED log
       ELSE /\ Emit(p, UploadCalls(argv[p], cfg.data))
            /\ Terminate(p, 0, "")
    /\ UNCHANGED <<argv, idx, current_config, merged_config, cfg, dirs>>

-----------------------------------------------------------------------------
Next ==
    \E p \in Procs :
        \/ Start(p)
        \/ Acquire(p)
        \/ Dispatch(p)
        \/ ProjectAdd(p)
        \/ ProjectDelete(p)
        \/ RefreshFetch(p)
        \/ RefreshCurrent(p)
        \/ RefreshMerge(p)
        \/ RefreshMerged(p)
        \/ InstallOpen(p)
        \/ CopyChunk(p)
        \/ CopyDone(p)
        \/ RefreshClose(p)
        \/ Finish(p)

Spec == Init /\ [][Next]_vars

TypeOK ==
    /\ pc \in [Procs -> {"start", "lock", "dispatch", "add", "delete", "refresh",
                         "fcur", "merge", "fmerged", "install", "copy", "close",
                         "upload", "exited"}]
    /\ status \in [Procs -> {-1, 0, 1}]
    /\ lock \in Procs \cup {"free"}

-----------------------------------------------------------------------------
(* Properties.                                                             *)

LockedSection ==
    {"dispatch", "add", "delete", "refresh", "fcur", "merge", "fmerged",
     "install", "copy", "close", "upload"}

InLocked(p) == pc[p] \in LockedSection

\* The step is one of invocation p.
StepOf(p) == <<pc[p], idx[p], copy[p]>>' # <<pc[p], idx[p], copy[p]>>

Calls(p, op) == {i \in DOMAIN log[p] : log[p][i].op = op}

\* C1: at most one invocation is inside the locked section, and it holds the
\* lock; an invocation whose acquisition fails exits at once with status 1,
\* having made no call and changed no file, and leaves the lock holder alone.
C1_MutualExclusion ==
    /\ [](/\ \A p, q \in Procs : InLocked(p) /\ InLocked(q) => p = q
          /\ \A p \in Procs : InLocked(p) => lock = p
          /\ \A p \in Procs : err[p] = "Timeout" =>
                pc[p] = "exited" /\ status[p] = 1 /\ log[p] = <<>>)
    /\ [][\A p \in Procs :
            pc[p] = "lock" /\ lock # "free" /\ StepOf(p) =>
               /\ pc'[p] = "exited" /\ status'[p] = 1 /\ err'[p] = "Timeout"
               /\ UNCHANGED <<lock, cfg, dirs, log, fcur, fmerged, idx,
                              current_config, merged_config>>
               /\ \A q \in Procs \ {p} : pc'[q] = pc[q]]_vars

C1_Witness ==
    \E p, q \in Procs :
        /\ InLocked(p) /\ lock = p /\ log[p] # <<>>
        /\ pc[q] = "exited" /\ err[q] = "Timeout" /\ status[q] = 1

\* C2 as stated: a dry run makes no service call, runs no subprocess and
\* changes nothing in the file system (no temporary file either).
C2_DryRunNothing == \A p \in Procs : ~argv[p].doit => log[p] = <<>>

\* C2 (amended): a dry run makes no add_project, delete_project,
\* get_configuration or set_configuration call, runs no subprocess, copies
\* and removes nothing and writes to no file; it still looks up sourceRoot
\* with get_config_value (delete) and creates its temporary files, which stay
\* empty (refresh).
C2_DryRun ==
    /\ [](\A p \in Procs : ~argv[p].doit =>
            /\ \A i \in DOMAIN log[p] :
                  log[p][i].op \in {"get_config_value", "mktemp"}
            /\ fcur[p].disk = <<>> /\ fcur[p].buf = <<>>
            /\ fmerged[p].disk = <<>> /\ fmerged[p].buf = <<>>)
    /\ [][\A p \in Procs : ~argv[p].doit /\ StepOf(p) =>
             cfg' = cfg /\ dirs' = dirs]_vars

C2_Witness ==
    \E p \in Procs :
        /\ ~argv[p].doit /\ argv[p].op = "delete" /\ argv[p].upload
        /\ argv[p].roconfig # ""
        /\ pc[p] = "exited" /\ status[p] = 0
        /\ Calls(p, "get_config_value") # {}
        /\ Cardinality(Calls(p, "mktemp")) = 2

\* C3: after a refresh with doit and without a read-only config, the
\* configuration file holds exactly the text get_configuration returned.
C3_InstalledIsFetched ==
    \A p \in Procs :
        pc[p] = "close" /\ argv[p].doit /\ argv[p].roconfig = "" =>
            cfg.data = current_config[p]

\* C4: with doit and a read-only config the merge tool runs once, on
\* (roconfig, a temporary file whose readable content is the fetched text),
\* and on completion the configuration file holds exactly its output.
C4_MergedInstalled ==
    \A p \in Procs :
        argv[p].doit /\ argv[p].roconfig # "" =>
            /\ Cardinality(Calls(p, "exec")) <= 1
            /\ \A i \in Calls(p, "exec") :
                  /\ log[p][i].src = argv[p].roconfig
                  /\ log[p][i].dst = "fcur"
                  /\ log[p][i].data = current_config[p]
            /\ pc[p] = "close" =>
                  /\ Cardinality(Calls(p, "exec")) = 1
                  /\ cfg.data = merged_config[p]

\* C5 as stated: while install_config copies, the configuration file holds
\* either the complete previous content or the complete new content.
C5_AtomicInstall ==
    \A p \in Procs :
        pc[p] = "copy" =>
            cfg.data \in {copy[p].old, Readable(TempOf(p, copy[p].src))}

\* C5 (amended): the install is a copy in place: during the copy the
\* configuration file holds the part of the source's readable content copied
\* so far (empty at first), a failing copy leaves that part behind, and when
\* install_config returns the file holds the complete readable content.
C5_InPlaceCopy ==
    /\ [](\A p \in Procs :
            /\ pc[p] = "copy" =>
                 /\ cfg.exists
                 /\ copy[p].pos <= Len(Readable(TempOf(p, copy[p].src)))
                 /\ cfg.data = SubSeq(Readable(TempOf(p, copy[p].src)), 1, copy[p].pos)
            /\ pc[p] = "close" /\ copy[p].src # "" =>
                 cfg.data = Readable(TempOf(p, copy[p].src)))
    /\ [][\A p \in Procs : pc[p] = "copy" /\ pc'[p] = "exited" => cfg' = cfg]_vars

C5_Witness ==
    \E p \in Procs :
        /\ pc[p] = "copy"
        /\ copy[p].pos > 0
        /\ copy[p].pos < Len(Readable(TempOf(p, copy[p].src)))
        /\ cfg.data # copy[p].old

\* C6: in a delete with doit, each removal is preceded, for the same project,
\* by delete_project and then the sourceRoot lookup, and removes exactly
\* join(first returned value without trailing whitespace, project); the
\* directory tree changes only by such a removal.
C6_DeleteOrder ==
    /\ [](\A p \in Procs : argv[p].doit =>
            /\ \A i \in Calls(p, "rmtree") :
                  /\ i >= 3
                  /\ log[p][i - 1].op = "get_config_value"
                  /\ log[p][i - 1].proj = log[p][i].proj
                  /\ log[p][i - 2].op = "delete_project"
                  /\ log[p][i - 2].proj = log[p][i].proj
                  /\ log[p][i].data =
                        PathJoin(RStrip(log[p][i - 1].data), log[p][i].proj)
                  /\ log[p][i].proj[1] # "/" /\ Last(RStrip(log[p][i - 1].data)) # "/"
                        => log[p][i].data =
                             RStrip(log[p][i - 1].data) \o <<"/">> \o log[p][i].proj
            /\ \A i \in Calls(p, "get_config_value") :
                  /\ i >= 2
                  /\ log[p][i - 1].op = "delete_project"
                  /\ log[p][i - 1].proj = log[p][i].proj)
    /\ [][dirs' # dirs =>
            \E p \in Procs :
               /\ Len(log'[p]) > Len(log[p])
               /\ Last(log'[p]).op = "rmtree"
               /\ dirs' \subseteq dirs
               /\ \A d \in dirs :
                     d \notin dirs' <=>
                        /\ IsUnder(d, Resolve(Last(log'[p]).data))
                        /\ (d = Resolve(Last(log'[p]).data) =>
                              Last(Split(Last(log'[p]).data)) \notin DotNames)]_vars

C6_Witness ==
    \E p \in Procs :
        /\ argv[p].doit /\ Len(log[p]) >= 6
        /\ log[p][6].op = "rmtree" /\ log[p][6].proj = ProjB
        /\ log[p][5].data # RStrip(log[p][5].data)
        /\ SrcRoot \o <<"/", "b">> \notin dirs

\* C7: project_delete with an empty project name raises before any service
\* call and before any removal, with or without doit.
C7_EmptyProject ==
    /\ [](\A p \in Procs : \A i \in DOMAIN log[p] :
            log[p][i].op \in {"delete_project", "get_config_value", "rmtree"}
               => log[p][i].proj # <<>>)
    /\ [][\A p \in Procs :
            pc[p] = "delete" /\ argv[p].projects[idx[p]] = <<>> /\ StepOf(p) =>
               /\ pc'[p] = "exited" /\ err'[p] = "Exception" /\ status'[p] # 0
               /\ log' = log /\ dirs' = dirs /\ cfg' = cfg]_vars

C7_Witness ==
    \E p \in Procs :
        /\ argv[p].op = "delete" /\ argv[p].doit
        /\ Len(argv[p].projects) = 2 /\ idx[p] = 2 /\ argv[p].projects[2] = <<>>
        /\ pc[p] = "exited" /\ err[p] = "Exception"
        /\ Calls(p, "rmtree") # {}

\* C8: when the sourceRoot lookup returns nothing, or a first value that is
\* empty once its trailing whitespace is stripped, project_delete raises:
\* the lookup is the last call of the run (no removal, no refresh, no upload)
\* and no removal ever follows a lookup with an empty source root.
C8_EmptySourceRoot ==
    \A p \in Procs :
        /\ \A i \in Calls(p, "get_config_value") :
              RStrip(log[p][i].data) = <<>> =>
                 /\ i = Len(log[p])
                 /\ pc[p] = "exited" /\ err[p] = "Exception" /\ status[p] # 0
        /\ \A i \in Calls(p, "rmtree") :
              i >= 2 /\ RStrip(log[p][i - 1].data) # <<>>

C8_Witness ==
    \E p \in Procs :
        /\ argv[p].doit /\ argv[p].upload /\ log[p] # <<>>
        /\ Last(log[p]).op = "get_config_value"
        /\ Last(log[p]).data = <<" ">>
        /\ pc[p] = "exited" /\ err[p] = "Exception"

\* C9: in an add with doit, the add_project calls come first, one per listed
\* project in command-line order; the configuration is fetched only after
\* all of them, and the configuration file is rewritten at most once, after
\* that fetch and from a temporary file written after it; a run that
\* completes has rewritten it exactly once.
C9_AddThenRefresh ==
    \A p \in Procs :
        argv[p].op = "add" /\ argv[p].doit =>
            LET n == Len(argv[p].projects) IN
            /\ \A i \in Calls(p, "add_project") :
                  i <= n /\ log[p][i].proj = argv[p].projects[i]
            /\ \A i \in DOMAIN log[p] :
                  i <= n => log[p][i].op = "add_project"
            /\ Calls(p, "get_configuration") \subseteq {n + 1}
            /\ Cardinality(Calls(p, "copyfile")) <= 1
            /\ \A i \in Calls(p, "copyfile") :
                  /\ log[p][i].dst = "main_config"
                  /\ log[p][i - 1].op = "write"
                  /\ log[p][i - 1].dst = log[p][i].src
                  /\ Calls(p, "get_configuration") = {n + 1}
                  /\ i > n + 1
                  /\ argv[p].roconfig = "" => log[p][i - 1].data = log[p][n + 1].data
            /\ pc[p] = "exited" /\ status[p] = 0 =>
                  Cardinality(Calls(p, "copyfile")) = 1

C9_Witness ==
    \E p \in Procs :
        /\ argv[p].op = "add" /\ argv[p].doit /\ Len(argv[p].projects) = 2
        /\ pc[p] = "exited" /\ status[p] = 0
        /\ Calls(p, "add_project") = {1, 2}
        /\ Calls(p, "copyfile") # {}

\* C10: a failed add_project call is the last call of the run, and the run
\* does not end with exit status 0.
C10_AddFailureAborts ==
    \A p \in Procs : \A i \in Calls(p, "add_project") :
        ~log[p][i].ok =>
            /\ i = Len(log[p])
            /\ pc[p] = "exited" => status[p] # 0

\* C11: an invocation that has terminated, however it ended, does not hold
\* the lock: the lock is held only by an invocation inside the locked
\* section, and the step that leaves the locked section frees it, so that
\* an invocation arriving later acquires it.
C11_LockReleased ==
    /\ [](/\ \A p \in Procs : pc[p] = "exited" => lock # p
          /\ \A p \in Procs : lock = p => InLocked(p)
          /\ (\A p \in Procs : ~InLocked(p)) => lock = "free")
    /\ [][\A p \in Procs :
            InLocked(p) /\ pc'[p] = "exited" => lock = p /\ lock' = "free"]_vars

C11_Witness ==
    \E p, q \in Procs :
        /\ pc[p] = "exited" /\ err[p] = "Exception" /\ log[p] # <<>>
        /\ InLocked(q) /\ lock = q /\ log[q] # <<>>

\* C12: when the configuration file does not exist as config_refresh is
\* entered, config_refresh exits with status 1 and does nothing else: no
\* fetch, no temporary file, no merge run, and the file is not created.
C12_MissingConfigFile ==
    /\ [](\A p \in Procs :
            Calls(p, "get_configuration") \cup Calls(p, "mktemp")
               \cup Calls(p, "exec") \cup Calls(p, "copyfile") # {} => cfg.exists)
    /\ [][\A p \in Procs :
            pc[p] = "refresh" /\ ~cfg.exists /\ StepOf(p) =>
               /\ pc'[p] = "exited" /\ status'[p] = 1 /\ err'[p] = "SystemExit"
               /\ log' = log /\ cfg' = cfg
               /\ ~fcur'[p].exists /\ ~fmerged'[p].exists]_vars

C12_Witness ==
    \E p \in Procs :
        /\ ~cfg.exists
        /\ argv[p].op = "add" /\ argv[p].doit /\ argv[p].roconfig # ""
        /\ pc[p] = "exited" /\ status[p] = 1 /\ err[p] = "SystemExit"
        /\ Cardinality(Calls(p, "add_project")) = Len(log[p])
        /\ Len(log[p]) = Len(argv[p].projects)

\* C13: a merge command that does not finish with return code 0 ends the
\* run with status 1: it is the last call of the run (no install, no
\* upload) and the configuration file is as it was; a merged configuration
\* exists only after a run of the command that succeeded.
C13_MergeFailure ==
    /\ [](\A p \in Procs :
            /\ \A i \in Calls(p, "exec") :
                  ~log[p][i].ok =>
                     /\ i = Len(log[p])
                     /\ pc[p] = "exited" /\ status[p] = 1
            /\ (pc[p] \in {"fmerged", "install", "copy"} /\ argv[p].doit
                  /\ argv[p].roconfig # "") =>
                  \E i \in Calls(p, "exec") : log[p][i].ok)
    /\ [][\A p \in Procs :
            pc[p] = "merge" /\ pc'[p] = "exited" =>
               cfg' = cfg /\ status'[p] = 1 /\ ~Last(log'[p]).ok]_vars

C13_Witness ==
    \E p \in Procs :
        /\ pc[p] = "exited" /\ status[p] = 1 /\ argv[p].upload
        /\ log[p] # <<>> /\ Last(log[p]).op = "exec" /\ ~Last(log[p]).ok
        /\ cfg.data = OldText

\* C14: outside config_refresh no temporary file of the invocation exists:
\* both are gone when config_refresh returns and whenever the run has ended,
\* by return, by sys.exit or by an exception.
C14_TempFilesDeleted ==
    \A p \in Procs :
        pc[p] \in {"exited", "upload", "start", "lock", "dispatch", "add", "delete",
                   "refresh"} =>
            ~fcur[p].exists /\ ~fmerged[p].exists

C14_Witness ==
    \E p \in Procs :
        /\ pc[p] = "exited" /\ status[p] = 1
        /\ Cardinality(Calls(p, "mktemp")) = 2
        /\ Last(log[p]).op = "copyfile"


\* C15: set_configuration is called only with --upload and doit, at most
\* once, as the last call of a run whose operation and refresh completed,
\* on the existing configuration file, in the step that ends the locked
\* section; with --upload and no configuration file the run exits 1 without
\* the call.
C15_Upload ==
    /\ [](\A p \in Procs :
            /\ Cardinality(Calls(p, "set_configuration")) <= 1
            /\ \A i \in Calls(p, "set_configuration") :
                  /\ argv[p].upload /\ argv[p].doit
                  /\ argv[p].op \in {"add", "delete", "refresh"}
                  /\ i = Len(log[p])
                  /\ idx[p] = Len(argv[p].projects) + 1
                  /\ \E j \in Calls(p, "copyfile") : j < i
                  /\ cfg.exists
                  /\ pc[p] = "exited" /\ status[p] = 0)
    /\ [][\A p \in Procs :
            /\ Calls(p, "set_configuration")' # Calls(p, "set_configuration") =>
                  pc[p] = "upload" /\ lock = p /\ cfg.exists
                  /\ Last(log'[p]).data = cfg.data
            /\ pc[p] = "upload" /\ argv[p].upload /\ ~cfg.exists /\ StepOf(p) =>
                  pc'[p] = "exited" /\ status'[p] = 1 /\ log' = log]_vars

C15_Witness ==
    \E p \in Procs :
        /\ argv[p].op = "delete" /\ argv[p].roconfig # ""
        /\ pc[p] = "exited" /\ status[p] = 0
        /\ Last(log[p]).op = "set_configuration"
        /\ Calls(p, "rmtree") # {}

\* C16: without --add, --delete or --refresh the run ends with status 1
\* having made no call at all, --upload or not; a run ends with status 0
\* only after every step of its operation was carried out (all projects,
\* the fetch, the merge when asked, the install, the upload when asked), and
\* with status 1 whenever it ended by sys.exit, lock contention or an
\* exception.
C16_ExitStatus ==
    \A p \in Procs :
        /\ argv[p].op = "none" =>
              /\ log[p] = <<>>
              /\ pc[p] \in {"start", "lock", "dispatch", "exited"}
              /\ pc[p] = "exited" => status[p] = 1
        /\ pc[p] = "exited" => status[p] \in {0, 1} /\ (status[p] = 0 <=> err[p] = "")
        /\ pc[p] # "exited" => status[p] = -1
        /\ status[p] = 0 =>
              /\ pc[p] = "exited" /\ ArgsValid(argv[p])
              /\ argv[p].op \in {"add", "delete", "refresh"}
              /\ idx[p] = Len(argv[p].projects) + 1
              /\ argv[p].op = "add" /\ argv[p].doit =>
                    Cardinality(Calls(p, "add_project")) = Len(argv[p].projects)
              /\ argv[p].op = "delete" /\ argv[p].doit =>
                    Cardinality(Calls(p, "rmtree")) = Len(argv[p].projects)
              /\ argv[p].doit =>
                    /\ \E i \in Calls(p, "get_configuration") : log[p][i].ok
                    /\ Calls(p, "copyfile") # {}
              /\ argv[p].doit /\ argv[p].roconfig # "" =>
                    \E i \in Calls(p, "exec") : log[p][i].ok
              /\ argv[p].doit /\ argv[p].upload =>
                    Last(log[p]).op = "set_configuration"

C16_Witness ==
    \E p, q \in Procs :
        /\ argv[p].op = "none" /\ argv[p].upload /\ argv[p].doit
        /\ pc[p] = "exited" /\ status[p] = 1 /\ err[p] = "SystemExit"
        /\ pc[q] = "exited" /\ status[q] = 0

\* C17: for every deleted project the refresh of the on-disk configuration
\* comes before the removal of the project's source tree (the step order
\* given in the description of project_delete).
C17_RefreshBeforeRemoval ==
    \A p \in Procs : \A i \in Calls(p, "rmtree") :
        \E j \in Calls(p, "copyfile") : j < i

\* C18: after a failed delete_project call the run makes no removal, no
\* further delete_project call, no fetch, no install and no upload, and
\* does not end with exit status 0.
C18_DeleteFailureAborts ==
    \A p \in Procs : \A i \in Calls(p, "delete_project") :
        ~log[p][i].ok =>
            /\ \A j \in DOMAIN log[p] :
                  j > i => log[p][j].op \notin
                     {"rmtree", "delete_project", "get_configuration",
                      "copyfile", "set_configuration"}
            /\ pc[p] = "exited" => status[p] # 0

\* C19: when a temporary file is about to be read through its path (by the
\* merge tool, or by the copy of install_config), nothing written to it is
\* still in the writer's buffer.
C19_NothingBuffered ==
    \A p \in Procs :
        /\ pc[p] = "merge" /\ argv[p].doit => fcur[p].buf = <<>>
        /\ pc[p] \in {"install", "copy"} => TempOf(p, copy[p].src).buf = <<>>

\* the directory at path lies strictly below the directory at root
StrictlyBelow(path, root) ==
    Resolve(path) # Resolve(root) /\ IsUnder(Resolve(path), Resolve(root))

\* C20: every directory tree handed to the recursive removal lies strictly
\* below the source root that was looked up for it.
C20_RemovalBelowSourceRoot ==
    \A p \in Procs : \A i \in Calls(p, "rmtree") :
        i >= 2 /\ StrictlyBelow(log[p][i].data, RStrip(log[p][i - 1].data))

====
